---- MODULE Spec2Model ----
(***************************************************************************)
(* Model of genco's Java and Go language backends (src/lang/java/mod.rs,   *)
(* src/lang/go.rs): import collection, import resolution, use-site         *)
(* qualification, file header assembly and string quoting.                 *)
(*                                                                         *)
(* A token stream is modelled as the sequence of its language items (the   *)
(* values walk_custom / walk_imports yield, in document order).  Rendered  *)
(* text is the sequence of the strings handed to write_str.                *)
(***************************************************************************)
EXTENDS Integers, Sequences, FiniteSets, TLC

VARIABLES lang, config, tokens, pc, file, input, quoted

vars == <<lang, config, tokens, pc, file, input, quoted>>

(***************************************************************************)
(* Bounds of the model.                                                    *)
(***************************************************************************)
\* total number of type nodes (items and their nested arguments) in a stream
MaxNodes == 3
\* number of nodes of the single item of a stream in SpecTree
MaxTreeNodes == 4
\* number of items of a stream in SpecSession
MaxItems == 2
\* length of the input of quote_string in SpecQuote
MaxLen == 2

(***************************************************************************)
(* Option<T>: None is the empty sequence, Some(x) the one-element one.     *)
(***************************************************************************)
None == <<>>
Some(x) == <<x>>

(***************************************************************************)
(* Ord for str, restricted to the strings of the model: the strings in     *)
(* ascending byte order.                                                   *)
(***************************************************************************)
StrOrder == <<"A", "B", "Debug", "a", "bar", "foo",
              "java.awt", "java.io", "java.lang", "java.util", "main">>

StrRank(s) == CHOOSE i \in 1..Len(StrOrder) : StrOrder[i] = s

StrLess(a, b) == StrRank(a) < StrRank(b)

(***************************************************************************)
(* Java: constants and constructors                                        *)
(***************************************************************************)
JAVA_LANG == "java.lang"
JAVA_SEP == "."

INTEGER == [kind |-> "Primitive", primitive |-> "int", boxed |-> "Integer"]
LONG == [kind |-> "Primitive", primitive |-> "long", boxed |-> "Long"]
VOID == [kind |-> "Void"]

\* imported(package, name)
imported(package, name) ==
    [kind |-> "Type", package |-> package, name |-> name,
     path |-> <<>>, arguments |-> <<>>]

\* Type::with_arguments
with_arguments(ty, args) ==
    [kind |-> "Type", package |-> ty.package, name |-> ty.name,
     path |-> ty.path, arguments |-> args]

\* Type::path: extends the nested path and discards the arguments
path(ty, part) ==
    [kind |-> "Type", package |-> ty.package, name |-> ty.name,
     path |-> Append(ty.path, part), arguments |-> <<>>]

\* local(name)
local(name) == [kind |-> "Local", name |-> name]

\* optional(value, field)
optional(value, field) == [kind |-> "Optional", value |-> value, field |-> field]

\* HashMap<String, String>
EmptyMap == [n \in {} |-> ""]
MapGet(m, k) == IF k \in DOMAIN m THEN Some(m[k]) ELSE None
MapInsert(m, k, v) == [n \in (DOMAIN m) \cup {k} |-> IF n = k THEN v ELSE m[n]]

\* Config::default
JavaConfigDefault == [package |-> None, imported |-> EmptyMap]

\* Config::with_package
JavaConfigWithPackage(c, package) ==
    [package |-> Some(package), imported |-> c.imported]

(***************************************************************************)
(* BTreeSet<(Cons, Cons)>: a strictly ascending sequence of keys.          *)
(***************************************************************************)
KeyLess(a, b) ==
    \/ StrLess(a[1], b[1])
    \/ a[1] = b[1] /\ StrLess(a[2], b[2])

\* a set that keeps insertion order instead of key order
KeyInsertUnordered(set, key) ==
    IF \E i \in 1..Len(set) : set[i] = key THEN set ELSE Append(set, key)

\* BTreeSet::insert
KeyInsert(set, key) ==
    IF \E i \in 1..Len(set) : set[i] = key
    THEN set
    ELSE LET below == SelectSeq(set, LAMBDA k : KeyLess(k, key))
             above == SelectSeq(set, LAMBDA k : KeyLess(key, k))
         IN  below \o <<key>> \o above

(***************************************************************************)
(* Java: TypeTrait::type_imports                                           *)
(***************************************************************************)
RECURSIVE JavaTypeImports(_, _)
RECURSIVE JavaArgumentImports(_, _)

\* the loop of Type::type_imports over self.arguments
JavaArgumentImports(arguments, modules) ==
    IF arguments = <<>>
    THEN modules
    ELSE LET argument == Head(arguments)
             next == IF argument.kind = "Type"
                     THEN JavaTypeImports(argument, modules)
                     ELSE modules
         IN  JavaArgumentImports(Tail(arguments), next)

JavaTypeImports(ty, modules) ==
    CASE ty.kind = "Type" ->
            KeyInsert(JavaArgumentImports(ty.arguments, modules),
                      <<ty.package, ty.name>>)
      [] ty.kind = "Optional" -> JavaTypeImports(ty.value, modules)
      [] OTHER -> modules

\* LangItem::as_import: Type, Local and Optional override it; Primitive and
\* Void keep the default of the trait, which yields nothing to import
JavaAsImport(item) ==
    IF item.kind \in {"Type", "Local", "Optional"} THEN Some(item) ELSE None

RECURSIVE JavaWalkImports(_, _)
\* the first loop of Java::imports: every custom item of the stream
JavaWalkImports(toks, modules) ==
    IF toks = <<>>
    THEN modules
    ELSE LET custom == Head(toks)
             next == IF JavaAsImport(custom) # None
                     THEN JavaTypeImports(custom, modules)
                     ELSE modules
         IN  JavaWalkImports(Tail(toks), next)

(***************************************************************************)
(* Java: TypeTrait::name, package and arguments                            *)
(***************************************************************************)
RECURSIVE JavaNameOfField(_)
\* a name() of Optional that asks the field instead of the value
JavaNameOfField(ty) ==
    CASE ty.kind = "Type" -> ty.name
      [] ty.kind = "Void" -> "void"
      [] ty.kind = "Primitive" -> ty.primitive
      [] ty.kind = "Local" -> ty.name
      [] ty.kind = "Optional" -> JavaNameOfField(ty.field)

RECURSIVE JavaName(_)
\* TypeTrait::name
JavaName(ty) ==
    CASE ty.kind = "Type" -> ty.name
      [] ty.kind = "Void" -> "void"
      [] ty.kind = "Primitive" -> ty.primitive
      [] ty.kind = "Local" -> ty.name
      [] ty.kind = "Optional" -> JavaName(ty.value)

RECURSIVE JavaPackage(_)
\* TypeTrait::package: Void and Local keep the default of the trait
JavaPackage(ty) ==
    CASE ty.kind = "Type" -> Some(ty.package)
      [] ty.kind = "Primitive" -> Some(JAVA_LANG)
      [] ty.kind = "Optional" -> JavaPackage(ty.value)
      [] OTHER -> None

RECURSIVE JavaArguments(_)
\* TypeTrait::arguments: only Type and Optional override the default
JavaArguments(ty) ==
    CASE ty.kind = "Type" -> Some(ty.arguments)
      [] ty.kind = "Optional" -> JavaArguments(ty.value)
      [] OTHER -> None

(***************************************************************************)
(* Java::imports                                                           *)
(***************************************************************************)
\* quote!(import #(package)#(SEP)#(name);)
JavaImportLine(package, name) == <<"import", " ", package, JAVA_SEP, name, ";">>

\* a resolution loop that registers a name again when it is already taken
JavaSkipNever(imports, package, name, file_package) ==
    \/ package = JAVA_LANG
    \/ Some(package) = file_package

\* a resolution loop that imports the Types of java.lang
JavaSkipNoBuiltin(imports, package, name, file_package) ==
    \/ name \in DOMAIN imports
    \/ Some(package) = file_package

\* the three `continue` conditions of the resolution loop
JavaSkip(imports, package, name, file_package) ==
    \/ name \in DOMAIN imports
    \/ package = JAVA_LANG
    \/ Some(package) = file_package

RECURSIVE JavaResolve(_, _, _, _)
\* the second loop of Java::imports, over the keys in ascending order
JavaResolve(modules, file_package, imports, out) ==
    IF modules = <<>>
    THEN [out |-> out, imported |-> imports]
    ELSE LET package == Head(modules)[1]
             name == Head(modules)[2]
         IN  IF JavaSkip(imports, package, name, file_package)
             THEN JavaResolve(Tail(modules), file_package, imports, out)
             ELSE JavaResolve(Tail(modules), file_package,
                              MapInsert(imports, name, package),
                              Append(out, JavaImportLine(package, name)))

JavaImports(toks, c) ==
    LET modules == JavaWalkImports(toks, <<>>)
    IN  IF modules = <<>>
        THEN [out |-> None, imported |-> c.imported]
        ELSE LET r == JavaResolve(modules, c.package, c.imported, <<>>)
             IN  [out |-> Some(r.out), imported |-> r.imported]

(***************************************************************************)
(* Java: LangItem::format                                                  *)
(***************************************************************************)
\* the level a generic argument is not moved to
JavaArgumentLevelSame(level) == level

\* Type::format renders its arguments at level + 1
JavaArgumentLevel(level) == level + 1

\* a qualification test that forgets the file's package and java.lang
JavaQualifiedImportedOnly(ty, c) ==
    MapGet(c.imported, ty.name) # Some(ty.package)

\* the test of Type::format that writes the package and SEP
JavaQualified(ty, c) ==
    /\ ty.package # JAVA_LANG
    /\ MapGet(c.imported, ty.name) # Some(ty.package)
    /\ c.package # Some(ty.package)

RECURSIVE JavaPathText(_)
JavaPathText(p) ==
    IF p = <<>> THEN <<>> ELSE <<".", Head(p)>> \o JavaPathText(Tail(p))

RECURSIVE JavaFormat(_, _, _)
RECURSIVE JavaFormatArguments(_, _, _)

JavaFormatArguments(arguments, c, level) ==
    IF arguments = <<>>
    THEN <<>>
    ELSE JavaFormat(Head(arguments), c, level)
         \o (IF Tail(arguments) # <<>> THEN <<", ">> ELSE <<>>)
         \o JavaFormatArguments(Tail(arguments), c, level)

JavaFormat(item, c, level) ==
    CASE item.kind = "Type" ->
            (IF JavaQualified(item, c) THEN <<item.package, JAVA_SEP>> ELSE <<>>)
            \o <<item.name>>
            \o JavaPathText(item.path)
            \o (IF item.arguments # <<>>
                THEN <<"<">>
                     \o JavaFormatArguments(item.arguments, c, JavaArgumentLevel(level))
                     \o <<">">>
                ELSE <<>>)
      [] item.kind = "Void" -> IF level > 0 THEN <<"Void">> ELSE <<"void">>
      [] item.kind = "Primitive" ->
            IF level > 0 THEN <<item.boxed>> ELSE <<item.primitive>>
      [] item.kind = "Local" -> <<item.name>>
      [] item.kind = "Optional" -> JavaFormat(item.field, c, level)

\* a format of Type that registers the name it writes in the import table
JavaFormatConfigRegistering(item, c, level) ==
    IF item.kind = "Type"
    THEN [package |-> c.package,
          imported |-> MapInsert(c.imported, item.name, item.package)]
    ELSE c

RECURSIVE JavaFormatConfig(_, _, _)
RECURSIVE JavaFormatAllConfig(_, _, _)

\* the Config after the items were formatted one after the other, each with
\* the `&mut Config` the one before it left
JavaFormatAllConfig(items, c, level) ==
    IF items = <<>>
    THEN c
    ELSE JavaFormatAllConfig(Tail(items), JavaFormatConfig(Head(items), c, level), level)

\* what LangItem::format does to the `&mut Config` it receives: Type reads
\* package and imported and hands the Config to its arguments, Optional
\* hands it to its field, Void, Primitive and Local ignore it
JavaFormatConfig(item, c, level) ==
    CASE item.kind = "Type" ->
            JavaFormatAllConfig(item.arguments, c, JavaArgumentLevel(level))
      [] item.kind = "Optional" -> JavaFormatConfig(item.field, c, level)
      [] OTHER -> c

(***************************************************************************)
(* Java::write_file                                                        *)
(***************************************************************************)
LineSpacing == [kind |-> "LineSpacing"]

\* toks!["package ", package, ";"]
JavaPackageLine(package) == [kind |-> "Package", text |-> <<"package ", package, ";">>]

\* the header write_file pushes before the stream
JavaHeader(package, imports) ==
    (IF package # None
     THEN <<JavaPackageLine(package[1]), LineSpacing>>
     ELSE <<>>)
    \o (IF imports # None
        THEN <<[kind |-> "Imports", lines |-> imports[1]], LineSpacing>>
        ELSE <<>>)

\* the items of the stream are formatted at level 0, after the import pass,
\* each with the Config the items before it left
JavaWriteFileResult(toks, c) ==
    LET r == JavaImports(toks, c)
        after == [package |-> c.package, imported |-> r.imported]
    IN  [config |-> JavaFormatAllConfig(toks, after, 0),
         file |-> [header |-> JavaHeader(c.package, r.out),
                   body |-> [i \in 1..Len(toks) |->
                               JavaFormat(toks[i],
                                          JavaFormatAllConfig(SubSeq(toks, 1, i - 1),
                                                              after, 0),
                                          0)]]]

NoFile == [header |-> <<>>, body |-> <<>>]

(***************************************************************************)
(* Go: types                                                               *)
(*                                                                         *)
(* A module path is the sequence of its "/"-separated segments; the        *)
(* segments of the model are letters only, so the byte order of the paths  *)
(* is the lexicographic order of the segment sequences.                    *)
(***************************************************************************)
GO_SEP == "."

\* the interface type `interface{}`
INTERFACE == [kind |-> "Interface"]

\* go::imported(module, name)
go_imported(module, name) == [kind |-> "Type", module |-> Some(module), name |-> name]

\* go::local(name)
go_local(name) == [kind |-> "Type", module |-> None, name |-> name]

\* go::map(key, value)
go_map(key, value) == [kind |-> "Map", key |-> key, value |-> value]

\* go::array(inner)
go_array(inner) == [kind |-> "Array", inner |-> inner]

\* Config::default
GoConfigDefault == [package |-> None]

\* Config::with_package
GoConfigWithPackage(c, package) == [package |-> Some(package)]

RECURSIVE ModuleLess(_, _)
\* Ord for the module paths
ModuleLess(a, b) ==
    IF a = <<>> THEN b # <<>>
    ELSE IF b = <<>> THEN FALSE
    ELSE IF Head(a) = Head(b) THEN ModuleLess(Tail(a), Tail(b))
    ELSE StrLess(Head(a), Head(b))

\* a sorted list that keeps a module path inserted again
ModuleInsertAgain(set, module) ==
    SelectSeq(set, LAMBDA k : ModuleLess(k, module))
    \o <<module>>
    \o SelectSeq(set, LAMBDA k : ~ModuleLess(k, module))

\* BTreeSet<ItemStr>::insert
ModuleInsert(set, module) ==
    IF \E i \in 1..Len(set) : set[i] = module
    THEN set
    ELSE LET below == SelectSeq(set, LAMBDA k : ModuleLess(k, module))
             above == SelectSeq(set, LAMBDA k : ModuleLess(module, k))
         IN  below \o <<module>> \o above

\* TypeTrait::type_imports of Type
GoTypeModule(ty, modules) ==
    IF ty.module # None THEN ModuleInsert(modules, ty.module[1]) ELSE modules

RECURSIVE GoTypeImports(_, _)
\* TypeTrait::type_imports of Type, Map, Interface and Array
GoTypeImports(ty, modules) ==
    CASE ty.kind = "Type" -> GoTypeModule(ty, modules)
      [] ty.kind = "Map" -> GoTypeImports(ty.value, GoTypeImports(ty.key, modules))
      [] ty.kind = "Interface" -> modules
      [] ty.kind = "Array" -> GoTypeImports(ty.inner, modules)

RECURSIVE GoWalkImports(_, _)
\* the first loop of Go::imports
GoWalkImports(toks, modules) ==
    IF toks = <<>>
    THEN modules
    ELSE GoWalkImports(Tail(toks), GoTypeImports(Head(toks), modules))

RECURSIVE GoModuleText(_)
\* the text of a module path
GoModuleText(module) ==
    IF Len(module) <= 1 THEN module
    ELSE <<Head(module), "/">> \o GoModuleText(Tail(module))

GoPush == [kind |-> "Push"]
GoLine == [kind |-> "Line"]

\* quote_in!(*out => import #(module.quoted()))
GoImportLine(module) ==
    [kind |-> "Text", text |-> <<"import", " ", "\"">> \o GoModuleText(module) \o <<"\"">>]

RECURSIVE GoImportLines(_)
\* the second loop of Go::imports
GoImportLines(modules) ==
    IF modules = <<>> THEN <<>>
    ELSE <<GoImportLine(Head(modules)), GoPush>> \o GoImportLines(Tail(modules))

\* Go::imports: what it appends to the header
GoImports(toks) ==
    LET modules == GoWalkImports(toks, <<>>)
    IN  IF modules = <<>> THEN <<>> ELSE GoImportLines(modules) \o <<GoLine>>

RECURSIVE GoFormat(_)
\* LangItem::format of Type, Map, Array and Interface
GoFormat(item) ==
    CASE item.kind = "Type" ->
            (IF item.module # None
             THEN <<item.module[1][Len(item.module[1])], GO_SEP>>
             ELSE <<>>)
            \o <<item.name>>
      [] item.kind = "Map" ->
            <<"map[">> \o GoFormat(item.key) \o <<"]">> \o GoFormat(item.value)
      [] item.kind = "Array" -> <<"[", "]">> \o GoFormat(item.inner)
      [] item.kind = "Interface" -> <<"interface{}">>

\* quote_in!(header => package #package)
GoPackageLine(package) ==
    [kind |-> "Text", text |-> <<"package", " ">> \o GoModuleText(package)]

\* the header of Go::format_file
GoHeader(package, toks) ==
    (IF package # None THEN <<GoPackageLine(package[1]), GoLine>> ELSE <<>>)
    \o GoImports(toks)

GoFormatFileResult(toks, c) ==
    [header |-> GoHeader(c.package, toks),
     body |-> [i \in 1..Len(toks) |-> GoFormat(toks[i])]]

(***************************************************************************)
(* quote_string.  A string is the sequence of the code points of its       *)
(* chars.                                                                  *)
(***************************************************************************)
TAB == 9
BEL == 7
LF == 10
CR == 13
DC4 == 20
APOSTROPHE == 39
QUOTE == 34
BACKSLASH == 92

\* the text "\\" followed by the letter c
Escape(c) == <<BACKSLASH, c>>

\* the match of Java::quote_string on one char
JavaQuoteChar(c) ==
    CASE c = TAB -> Escape(116)
      [] c = BEL -> Escape(98)
      [] c = LF -> Escape(110)
      [] c = CR -> Escape(114)
      [] c = DC4 -> Escape(102)
      [] c = APOSTROPHE -> Escape(APOSTROPHE)
      [] c = QUOTE -> Escape(QUOTE)
      [] c = BACKSLASH -> Escape(BACKSLASH)
      [] OTHER -> <<c>>

\* the match of Go::quote_string on one char
GoQuoteChar(c) ==
    CASE c = TAB -> Escape(116)
      [] c = LF -> Escape(110)
      [] c = CR -> Escape(114)
      [] c = APOSTROPHE -> Escape(APOSTROPHE)
      [] c = QUOTE -> Escape(QUOTE)
      [] c = BACKSLASH -> Escape(BACKSLASH)
      [] OTHER -> <<c>>

RECURSIVE JavaQuoteChars(_)
JavaQuoteChars(str) ==
    IF str = <<>> THEN <<>> ELSE JavaQuoteChar(Head(str)) \o JavaQuoteChars(Tail(str))

RECURSIVE GoQuoteChars(_)
GoQuoteChars(str) ==
    IF str = <<>> THEN <<>> ELSE GoQuoteChar(Head(str)) \o GoQuoteChars(Tail(str))

\* Java::quote_string
java_quote_string(str) == <<QUOTE>> \o JavaQuoteChars(str) \o <<QUOTE>>

\* Go::quote_string
go_quote_string(str) == <<QUOTE>> \o GoQuoteChars(str) \o <<QUOTE>>

(***************************************************************************)
(* The streams the model renders                                           *)
(***************************************************************************)
JavaPackages == {"java.awt", "java.io", "java.lang", "java.util"}

\* the (package, name) pairs of the Types of a stream
JavaHeads ==
    {<<"java.awt", "B">>, <<"java.io", "A">>, <<"java.io", "B">>,
     <<"java.lang", "B">>, <<"java.util", "B">>}

RECURSIVE JavaNodes(_)
RECURSIVE JavaNodesOfAll(_)
\* number of type nodes of an item
JavaNodes(item) ==
    CASE item.kind = "Type" -> 1 + JavaNodesOfAll(item.arguments)
      [] item.kind = "Optional" -> 1 + JavaNodes(item.value) + JavaNodes(item.field)
      [] OTHER -> 1
JavaNodesOfAll(items) ==
    IF items = <<>> THEN 0 ELSE JavaNodes(Head(items)) + JavaNodesOfAll(Tail(items))

RECURSIVE JavaTypeTrees(_)
RECURSIVE JavaForests(_)
\* the Types with exactly n nodes: imported(p, nm).with_arguments(args)
JavaTypeTrees(n) ==
    IF n = 0 THEN {}
    ELSE {with_arguments(imported(h[1], h[2]), args) :
            h \in JavaHeads, args \in JavaForests(n - 1)}
\* the sequences of Types with exactly m nodes in total
JavaForests(m) ==
    IF m = 0 THEN {<<>>}
    ELSE UNION {{<<t>> \o rest : t \in JavaTypeTrees(i), rest \in JavaForests(m - i)} :
                  i \in 1..m}

\* the items of at most n nodes
JavaItems == [n \in 0..MaxNodes |-> UNION {JavaTypeTrees(i) : i \in 1..n}]

GoModules == {<<"foo">>, <<"bar">>, <<"a", "foo">>}
GoPackages == {<<"foo">>, <<"main">>}

RECURSIVE GoNodes(_)
RECURSIVE GoNodesOfAll(_)
GoNodes(item) ==
    CASE item.kind = "Map" -> 1 + GoNodes(item.key) + GoNodes(item.value)
      [] item.kind = "Array" -> 1 + GoNodes(item.inner)
      [] OTHER -> 1
GoNodesOfAll(items) ==
    IF items = <<>> THEN 0 ELSE GoNodes(Head(items)) + GoNodesOfAll(Tail(items))

RECURSIVE GoTrees(_)
\* the Go types with exactly n nodes
GoTrees(n) ==
    IF n <= 0 THEN {}
    ELSE IF n = 1
    THEN {go_imported(m, "Debug") : m \in GoModules} \cup {go_local("Debug"), INTERFACE}
    ELSE {go_array(t) : t \in GoTrees(n - 1)}
         \cup UNION {{go_map(k, v) : k \in GoTrees(i), v \in GoTrees(n - 1 - i)} :
                       i \in 1..(n - 2)}

\* the items of at most n nodes
GoItems == [n \in 0..MaxNodes |-> UNION {GoTrees(i) : i \in 1..n}]

\* the (package, name) pairs of the Types of a stream of SpecTree
JavaTreeHeads == {<<"java.io", "A">>, <<"java.lang", "B">>, <<"java.util", "B">>}

RECURSIVE JavaBoxes(_)
RECURSIVE JavaBoxForests(_)
\* the TypeBox values with exactly n nodes
JavaBoxes(n) ==
    IF n <= 0 THEN {}
    ELSE IF n = 1
    THEN {imported(h[1], h[2]) : h \in JavaTreeHeads}
         \cup {INTEGER, VOID, local("A"), path(imported("java.io", "A"), "B")}
    ELSE {with_arguments(imported(h[1], h[2]), args) :
            h \in JavaTreeHeads, args \in JavaBoxForests(n - 1)}
         \cup UNION {{optional(v, f) : v \in JavaBoxes(i), f \in JavaBoxes(n - 1 - i)} :
                       i \in 1..(n - 2)}
\* the sequences of TypeBox values with exactly m nodes in total
JavaBoxForests(m) ==
    IF m = 0 THEN {<<>>}
    ELSE UNION {{<<t>> \o rest : t \in JavaBoxes(i), rest \in JavaBoxForests(m - i)} :
                  i \in 1..m}

JavaTreeItems == UNION {JavaBoxes(n) : n \in 1..MaxTreeNodes}

\* the Types of a stream of SpecSession
JavaPlainTypes == {imported(p, n) : p \in JavaPackages, n \in {"A", "B"}}

\* the chars of the inputs of quote_string
Alphabet == {0, 8, 12, 97, TAB, BEL, LF, CR, DC4, APOSTROPHE, QUOTE, BACKSLASH}

Inputs == UNION {[1..n -> Alphabet] : n \in 0..MaxLen}

(***************************************************************************)
(* Actions                                                                 *)
(***************************************************************************)
\* Config::with_package on the Java configuration
JavaWithPackage(package) ==
    /\ lang = "java"
    /\ pc = "quoting"
    /\ config' = JavaConfigWithPackage(config, package)
    /\ UNCHANGED <<lang, tokens, pc, file, input, quoted>>

\* an item is interpolated into the stream
JavaQuote(items) ==
    /\ lang = "java"
    /\ pc = "quoting"
    /\ \E item \in items : tokens' = Append(tokens, item)
    /\ UNCHANGED <<lang, config, pc, file, input, quoted>>

\* Java::write_file
JavaWriteFile ==
    /\ lang = "java"
    /\ pc = "quoting"
    /\ LET r == JavaWriteFileResult(tokens, config)
       IN  /\ config' = r.config
           /\ file' = r.file
    /\ pc' = "written"
    /\ UNCHANGED <<lang, tokens, input, quoted>>

\* Config::with_package on the Go configuration
GoWithPackage(package) ==
    /\ lang = "go"
    /\ pc = "quoting"
    /\ config' = GoConfigWithPackage(config, package)
    /\ UNCHANGED <<lang, tokens, pc, file, input, quoted>>

\* an item is interpolated into the stream
GoQuote(items) ==
    /\ lang = "go"
    /\ pc = "quoting"
    /\ \E item \in items : tokens' = Append(tokens, item)
    /\ UNCHANGED <<lang, config, pc, file, input, quoted>>

\* Go::format_file
GoFormatFile ==
    /\ lang = "go"
    /\ pc = "quoting"
    /\ file' = GoFormatFileResult(tokens, config)
    /\ pc' = "written"
    /\ UNCHANGED <<lang, config, tokens, input, quoted>>

\* Tokens<Java> or Tokens<Go>, with the default configuration of the language
Init ==
    /\ lang \in {"java", "go"}
    /\ config = (IF lang = "java" THEN JavaConfigDefault ELSE GoConfigDefault)
    /\ tokens = <<>>
    /\ pc = "quoting"
    /\ file = NoFile
    /\ input = <<>>
    /\ quoted = <<>>

Next ==
    \/ \E package \in JavaPackages : JavaWithPackage(package)
    \/ JavaQuote(JavaItems[MaxNodes - JavaNodesOfAll(tokens)])
    \/ JavaWriteFile
    \/ \E package \in GoPackages : GoWithPackage(package)
    \/ GoQuote(GoItems[MaxNodes - GoNodesOfAll(tokens)])
    \/ GoFormatFile

\* one file rendered with a fresh configuration
Spec == Init /\ [][Next]_vars

\* the stream of the file rendered is consumed; another one is started under
\* the same configuration
JavaNextFile ==
    /\ lang = "java"
    /\ pc = "written"
    /\ tokens' = <<>>
    /\ file' = NoFile
    /\ pc' = "quoting"
    /\ UNCHANGED <<lang, config, input, quoted>>

InitJava == Init /\ lang = "java"

NextSession ==
    \/ \E package \in JavaPackages : JavaWithPackage(package)
    \/ JavaQuote(IF Len(tokens) < MaxItems THEN JavaPlainTypes ELSE {})
    \/ JavaWriteFile
    \/ JavaNextFile

\* files rendered one after the other with one Java configuration
SpecSession == InitJava /\ [][NextSession]_vars

NextTree ==
    \/ JavaQuote(IF tokens = <<>> THEN JavaTreeItems ELSE {})
    \/ JavaWriteFile

\* one file of one item, of any of the Java types, with a fresh configuration
SpecTree == InitJava /\ [][NextTree]_vars

\* Java::quote_string on the input
JavaQuoteString ==
    /\ lang = "java"
    /\ pc = "input"
    /\ quoted' = java_quote_string(input)
    /\ pc' = "quoted"
    /\ UNCHANGED <<lang, config, tokens, file, input>>

\* Go::quote_string on the input
GoQuoteString ==
    /\ lang = "go"
    /\ pc = "input"
    /\ quoted' = go_quote_string(input)
    /\ pc' = "quoted"
    /\ UNCHANGED <<lang, config, tokens, file, input>>

InitQuote ==
    /\ lang \in {"java", "go"}
    /\ config = (IF lang = "java" THEN JavaConfigDefault ELSE GoConfigDefault)
    /\ tokens = <<>>
    /\ pc = "input"
    /\ file = NoFile
    /\ input \in Inputs
    /\ quoted = <<>>

NextQuote == JavaQuoteString \/ GoQuoteString

\* quote_string applied to one input
SpecQuote == InitQuote /\ [][NextQuote]_vars

(***************************************************************************)
(* What the properties speak about                                         *)
(***************************************************************************)
Range(seq) == {seq[i] : i \in 1..Len(seq)}

JavaWritten == lang = "java" /\ pc = "written"
GoWritten == lang = "go" /\ pc = "written"

RECURSIVE JavaTypesOf(_)
\* every Type of an item: the item, its generic arguments at any depth, and
\* the value and field of an Optional
JavaTypesOf(item) ==
    CASE item.kind = "Type" ->
            {item} \cup UNION {JavaTypesOf(a) : a \in Range(item.arguments)}
      [] item.kind = "Optional" -> JavaTypesOf(item.value) \cup JavaTypesOf(item.field)
      [] OTHER -> {}

\* every Type of the stream
JavaStreamTypes == UNION {JavaTypesOf(item) : item \in Range(tokens)}

\* the (package, name) keys the import pass collected from the stream
JavaCollected == Range(JavaWalkImports(tokens, <<>>))

\* the import lines of the written Java file
JavaFileImports ==
    LET blocks == SelectSeq(file.header, LAMBDA e : e.kind = "Imports")
    IN  IF blocks = <<>> THEN <<>> ELSE blocks[1].lines

\* how many import lines the file has for (package, name)
JavaImportCount(package, name) ==
    Cardinality({i \in 1..Len(JavaFileImports) :
                   JavaFileImports[i] = JavaImportLine(package, name)})

\* the text of a Type of the stream in the written file
JavaText(ty) == JavaFormat(ty, config, 1)

JavaUnqualified(ty) == JavaText(ty)[1] = ty.name
JavaFullyQualified(ty) ==
    /\ Len(JavaText(ty)) >= 3
    /\ SubSeq(JavaText(ty), 1, 3) = <<ty.package, ".", ty.name>>

\* the package is java.lang or the package of the file
JavaSuppressed(package) == package = JAVA_LANG \/ config.package = Some(package)

(***************************************************************************)
(* C1  Collision rule.  As claimed: of any two Types of the stream with    *)
(* the same simple name and different packages, whatever the packages and  *)
(* the file's package, the one whose package sorts first is unqualified    *)
(* and has exactly one import line, the other is fully qualified and has   *)
(* no import line.                                                         *)
(***************************************************************************)
C1_CollisionAnyPackages ==
    JavaWritten =>
        \A t1, t2 \in JavaStreamTypes :
            (t1.name = t2.name /\ StrLess(t1.package, t2.package)) =>
                /\ JavaUnqualified(t1)
                /\ JavaImportCount(t1.package, t1.name) = 1
                /\ JavaFullyQualified(t2)
                /\ JavaImportCount(t2.package, t2.name) = 0

\* the collected keys of one simple name that are neither java.lang's nor the
\* file's package
JavaContenders(name) ==
    {k \in JavaCollected : k[2] = name /\ ~JavaSuppressed(k[1])}

\* C1 as amended: among the collected keys of one simple name whose package
\* is neither java.lang nor the file's package, the one whose package sorts
\* first is unqualified at every occurrence and has exactly one import line;
\* every other one is fully qualified and has no import line.
C1_CollisionRule ==
    JavaWritten =>
        \A t \in JavaStreamTypes :
            <<t.package, t.name>> \in JavaContenders(t.name) =>
                IF \A k \in JavaContenders(t.name) :
                       k[1] = t.package \/ StrLess(t.package, k[1])
                THEN /\ JavaUnqualified(t)
                     /\ JavaImportCount(t.package, t.name) = 1
                ELSE /\ JavaFullyQualified(t)
                     /\ JavaImportCount(t.package, t.name) = 0

\* three packages contend for one name, under a configured package
C1_Witness ==
    /\ JavaWritten
    /\ config.package # None
    /\ \E t1, t2, t3 \in JavaStreamTypes :
          /\ {<<t1.package, t1.name>>, <<t2.package, t2.name>>,
              <<t3.package, t3.name>>} \subseteq JavaContenders(t1.name)
          /\ StrLess(t1.package, t2.package)
          /\ StrLess(t2.package, t3.package)
          /\ JavaUnqualified(t1)
          /\ JavaFullyQualified(t2)
          /\ JavaFullyQualified(t3)
          /\ Len(JavaFileImports) = 1

(***************************************************************************)
(* C2  Import count.  As claimed: the number of import lines is the number *)
(* of distinct (package, name) pairs minus the pairs whose package is the  *)
(* file's package or java.lang.                                            *)
(***************************************************************************)
C2_ImportCountPairs ==
    JavaWritten =>
        Len(JavaFileImports) =
            Cardinality(JavaCollected)
            - Cardinality({k \in JavaCollected : JavaSuppressed(k[1])})

\* C2 as amended: the pairs whose simple name is shared with a remaining pair
\* of an earlier-sorting package are not counted either.
C2_ImportCount ==
    JavaWritten =>
        Len(JavaFileImports) =
            Cardinality(JavaCollected)
            - Cardinality({k \in JavaCollected : JavaSuppressed(k[1])})
            - Cardinality({k \in JavaCollected :
                             /\ ~JavaSuppressed(k[1])
                             /\ \E k2 \in JavaContenders(k[2]) : StrLess(k2[1], k[1])})

\* pairs of all three sorts: imported, suppressed and colliding
C2_Witness ==
    /\ JavaWritten
    /\ Cardinality(JavaCollected) = 3
    /\ Cardinality({k \in JavaCollected : JavaSuppressed(k[1])}) = 1
    /\ Len(JavaFileImports) = 1

(***************************************************************************)
(* C3  A Type whose package is the file's package or java.lang has no      *)
(* import line and is unqualified at every occurrence, whatever else the   *)
(* stream holds.                                                           *)
(***************************************************************************)
C3_Suppression ==
    JavaWritten =>
        \A t \in JavaStreamTypes :
            JavaSuppressed(t.package) =>
                /\ JavaImportCount(t.package, t.name) = 0
                /\ JavaUnqualified(t)

\* a same-package Type beside an imported Type of the same simple name
C3_Witness ==
    /\ JavaWritten
    /\ \E t1, t2 \in JavaStreamTypes :
          /\ config.package = Some(t1.package)
          /\ t1.package # JAVA_LANG
          /\ t1.name = t2.name
          /\ JavaImportCount(t2.package, t2.name) = 1

(***************************************************************************)
(* C4  The import lines are in strictly ascending key order, and a stream  *)
(* holding the same items in another order yields the same import list     *)
(* and the same text for every type.                                       *)
(***************************************************************************)
\* the streams with the items of the stream in any order
Reorderings(toks) ==
    {[i \in 1..Len(toks) |-> toks[f[i]]] :
        f \in {g \in [1..Len(toks) -> 1..Len(toks)] :
                 \A i, j \in 1..Len(toks) : g[i] = g[j] => i = j}}

\* the configuration write_file was entered with
JavaConfigBefore == [package |-> config.package, imported |-> EmptyMap]

\* the module paths of the import lines of the written Go file
GoFileImports ==
    LET lines == SelectSeq(file.header,
                           LAMBDA e : e.kind = "Text" /\ e.text[1] = "import")
    IN  [i \in 1..Len(lines) |->
            SelectSeq(SubSeq(lines[i].text, 4, Len(lines[i].text) - 1),
                      LAMBDA s : s # "/")]

\* C4: ascending import lines, and the same header and type texts for every
\* reordering of the stream, for Java (fresh Config) and for Go
C4_OrderIndependence ==
    /\ JavaWritten =>
          /\ \A i \in 1..(Len(JavaFileImports) - 1) :
                KeyLess(<<JavaFileImports[i][3], JavaFileImports[i][5]>>,
                        <<JavaFileImports[i + 1][3], JavaFileImports[i + 1][5]>>)
          /\ \A other \in Reorderings(tokens) :
                LET r == JavaWriteFileResult(other, JavaConfigBefore)
                IN  /\ r.file.header = file.header
                    /\ \A t \in JavaStreamTypes :
                          JavaFormat(t, r.config, 1) = JavaText(t)
    /\ GoWritten =>
          /\ \A i \in 1..(Len(GoFileImports) - 1) :
                ModuleLess(GoFileImports[i], GoFileImports[i + 1])
          /\ \A other \in Reorderings(tokens) :
                LET r == GoFormatFileResult(other, config)
                IN  /\ r.header = file.header
                    /\ \A i \in 1..Len(tokens) :
                          \E j \in 1..Len(other) :
                             other[j] = tokens[i] /\ r.body[j] = file.body[i]

\* two imports of a Java file whose types stand in descending order in the stream
C4_Witness ==
    /\ JavaWritten
    /\ Len(tokens) >= 2
    /\ Len(JavaFileImports) = 2
    /\ KeyLess(<<tokens[2].package, tokens[2].name>>,
               <<tokens[1].package, tokens[1].name>>)
    /\ ~JavaFullyQualified(tokens[1])

(***************************************************************************)
(* C6  Header assembly: the package line and its separator are in the      *)
(* header iff a package is configured, the import block and its separator  *)
(* iff at least one import line is emitted; the header never starts with a *)
(* separator and never has two separators in a row.                        *)
(***************************************************************************)
\* the header without the blocks that hold no line
VisibleHeader ==
    SelectSeq(file.header, LAMBDA e : ~(e.kind = "Imports" /\ e.lines = <<>>))

IsSeparator(e) == e.kind \in {"LineSpacing", "Line"}

Separators == Cardinality({i \in 1..Len(file.header) : IsSeparator(file.header[i])})

HasPackageLine ==
    \E i \in 1..Len(file.header) :
        \/ file.header[i].kind = "Package"
        \/ file.header[i].kind = "Text" /\ file.header[i].text[1] = "package"

HasImportBlock ==
    \E i \in 1..Len(file.header) :
        \/ file.header[i].kind = "Imports"
        \/ file.header[i].kind = "Text" /\ file.header[i].text[1] = "import"

EmitsImports ==
    IF lang = "java" THEN JavaFileImports # <<>> ELSE GoFileImports # <<>>

\* C6: each section and its separator are in the header iff the section is
\* not empty; no leading separator, no two separators in a row
C6_HeaderOmitsEmptySections ==
    pc = "written" =>
        /\ HasPackageLine <=> config.package # None
        /\ HasImportBlock <=> EmitsImports
        /\ Separators = (IF config.package # None THEN 1 ELSE 0)
                        + (IF EmitsImports THEN 1 ELSE 0)
        /\ VisibleHeader # <<>> => ~IsSeparator(VisibleHeader[1])
        /\ \A i \in 1..(Len(VisibleHeader) - 1) :
              ~(IsSeparator(VisibleHeader[i]) /\ IsSeparator(VisibleHeader[i + 1]))

(***************************************************************************)
(* C8  Go: one import line per distinct module path among the Types        *)
(* reachable from the stream (directly, as Map key or value, as Array      *)
(* element), none for a local Type or INTERFACE, no import block when no   *)
(* reachable Type has a module; the configured package plays no part.      *)
(***************************************************************************)
RECURSIVE GoTypesOf(_)
GoTypesOf(item) ==
    CASE item.kind = "Type" -> {item}
      [] item.kind = "Map" -> GoTypesOf(item.key) \cup GoTypesOf(item.value)
      [] item.kind = "Array" -> GoTypesOf(item.inner)
      [] OTHER -> {}

\* the module paths of the Types reachable from the stream
GoStreamModules ==
    {t.module[1] : t \in {u \in UNION {GoTypesOf(item) : item \in Range(tokens)} :
                            u.module # None}}

\* C8: the import lines of the Go file are the distinct module paths of the
\* reachable Types, one line each, and there is no import block without one
C8_GoImports ==
    GoWritten =>
        /\ Range(GoFileImports) = GoStreamModules
        /\ Len(GoFileImports) = Cardinality(GoStreamModules)
        /\ GoStreamModules = {} => ~HasImportBlock
        /\ GoStreamModules = {} =>
              file.header = (IF config.package # None
                             THEN <<GoPackageLine(config.package[1]), GoLine>>
                             ELSE <<>>)

\* the module of the configured package is imported once for the two Types of
\* a map, and a local Type stands beside it
C8_Witness ==
    /\ GoWritten
    /\ config.package = Some(<<"foo">>)
    /\ GoFileImports = << <<"foo">> >>
    /\ \E i \in 1..Len(tokens) :
          /\ tokens[i].kind = "Array"
          /\ tokens[i].inner = go_imported(<<"foo">>, "Debug")
    /\ \E i \in 1..Len(tokens) : tokens[i] = go_local("Debug")

(***************************************************************************)
(* C5  Import table: over any sequence of with_package and write_file      *)
(* calls on one Java Config, a simple name once registered keeps its       *)
(* package: it is never changed or removed, and a later key of the same    *)
(* simple name is not added.                                               *)
(***************************************************************************)
C5_ImportTableStable ==
    [][\A name \in DOMAIN config.imported :
           /\ name \in DOMAIN config'.imported
           /\ config'.imported[name] = config.imported[name]]_vars

\* a file was written whose stream holds a Type of a registered simple name
\* and another package, which neither java.lang nor the file's package is
C5_Witness ==
    /\ JavaWritten
    /\ \E t \in JavaStreamTypes :
          /\ t.name \in DOMAIN config.imported
          /\ config.imported[t.name] # t.package
          /\ ~JavaSuppressed(t.package)
          /\ StrLess(t.package, config.imported[t.name])

(***************************************************************************)
(* C7  Import collection is complete over generic arguments: the collected *)
(* keys hold the key of every Type of the stream and of every Type         *)
(* reachable through generic arguments at any depth, Optional wrappers     *)
(* around a Type included.                                                 *)
(***************************************************************************)
RECURSIVE JavaReachableKeys(_)
\* the keys of an item: its own, those of its arguments, and for an Optional
\* those of its value
JavaReachableKeys(item) ==
    CASE item.kind = "Type" ->
            {<<item.package, item.name>>}
            \cup UNION {JavaReachableKeys(a) : a \in Range(item.arguments)}
      [] item.kind = "Optional" -> JavaReachableKeys(item.value)
      [] OTHER -> {}

\* C7: the collected keys are the keys reachable from the items of the stream
C7_CollectionComplete ==
    JavaWritten =>
        JavaCollected = UNION {JavaReachableKeys(item) : item \in Range(tokens)}

(***************************************************************************)
(* C9  Boxing: a Primitive that is an item of the stream (level 0) prints  *)
(* its primitive spelling; a Primitive in the generic arguments of a Type, *)
(* at any depth, prints its boxed spelling.                                *)
(***************************************************************************)
RECURSIVE JavaPrimitivesIn(_)
RECURSIVE JavaPrimitivesInAll(_)
\* how many Primitives the text of an item shows
JavaPrimitivesIn(item) ==
    CASE item.kind = "Type" -> JavaPrimitivesInAll(item.arguments)
      [] item.kind = "Optional" -> JavaPrimitivesIn(item.field)
      [] item.kind = "Primitive" -> 1
      [] OTHER -> 0
JavaPrimitivesInAll(items) ==
    IF items = <<>> THEN 0
    ELSE JavaPrimitivesIn(Head(items)) + JavaPrimitivesInAll(Tail(items))

Occurrences(text, word) == Cardinality({i \in 1..Len(text) : text[i] = word})

\* C9: primitive spelling for a Primitive item, boxed spelling for every
\* Primitive in the generic arguments of a Type item
C9_Boxing ==
    JavaWritten =>
        \A i \in 1..Len(tokens) :
            /\ tokens[i].kind = "Primitive" => file.body[i] = <<tokens[i].primitive>>
            /\ tokens[i].kind = "Type" =>
                  /\ Occurrences(file.body[i], INTEGER.primitive) = 0
                  /\ Occurrences(file.body[i], INTEGER.boxed)
                        = JavaPrimitivesIn(tokens[i])

\* a Primitive two levels down, in the arguments of an argument
C9_Witness ==
    /\ JavaWritten
    /\ \E i \in 1..Len(tokens) :
          /\ tokens[i].kind = "Type"
          /\ \E a \in Range(tokens[i].arguments) :
                a.kind = "Type" /\ INTEGER \in Range(a.arguments)
          /\ Occurrences(file.body[i], "Integer") = 1

(***************************************************************************)
(* C10  quote_string: the output begins and ends with a double quote, and  *)
(* between them no control character is raw and every double quote and     *)
(* backslash of the input is escaped.                                      *)
(***************************************************************************)
IsControl(c) == c < 32 \/ c = 127

RECURSIVE WellEscaped(_)
\* a text of escapes (a backslash and the char after it) and of chars that
\* are no control character, double quote or backslash
WellEscaped(text) ==
    IF text = <<>> THEN TRUE
    ELSE IF Head(text) = BACKSLASH
    THEN Len(text) >= 2 /\ ~IsControl(text[2]) /\ WellEscaped(SubSeq(text, 3, Len(text)))
    ELSE ~IsControl(Head(text)) /\ Head(text) # QUOTE /\ WellEscaped(Tail(text))

\* C10: the quoted text is a double quote, a well-escaped text, a double quote
C10_QuoteStringEscapes ==
    pc = "quoted" =>
        /\ Len(quoted) >= 2
        /\ quoted[1] = QUOTE
        /\ quoted[Len(quoted)] = QUOTE
        /\ WellEscaped(SubSeq(quoted, 2, Len(quoted) - 1))

(***************************************************************************)
(* C11  Optional delegation: the import keys an Optional contributes are   *)
(* exactly those of its value (none from its field); its name(), package() *)
(* and arguments() are those of its value; its text at any level is the    *)
(* text of its field at that level.                                        *)
(***************************************************************************)
RECURSIVE JavaOptionalsOf(_)
\* every Optional of an item: the item, the Optionals in its generic
\* arguments, and those in the value and the field of an Optional
JavaOptionalsOf(item) ==
    CASE item.kind = "Type" ->
            UNION {JavaOptionalsOf(a) : a \in Range(item.arguments)}
      [] item.kind = "Optional" ->
            {item} \cup JavaOptionalsOf(item.value) \cup JavaOptionalsOf(item.field)
      [] OTHER -> {}

\* the levels an item of the stream can be formatted at
JavaLevels == 0..MaxTreeNodes

\* C11: an Optional item of the stream yields the collected keys and the body
\* text the claim states, and so does every Optional anywhere in the stream
C11_OptionalDelegation ==
    JavaWritten =>
        /\ \A i \in 1..Len(tokens) :
              tokens[i].kind = "Optional" =>
                 file.body[i] = JavaFormat(tokens[i].field, config, 0)
        /\ (Len(tokens) = 1 /\ tokens[1].kind = "Optional") =>
              JavaCollected = Range(JavaTypeImports(tokens[1].value, <<>>))
        /\ \A o \in UNION {JavaOptionalsOf(item) : item \in Range(tokens)} :
              /\ JavaTypeImports(o, <<>>) = JavaTypeImports(o.value, <<>>)
              /\ JavaName(o) = JavaName(o.value)
              /\ JavaPackage(o) = JavaPackage(o.value)
              /\ JavaArguments(o) = JavaArguments(o.value)
              /\ \A level \in JavaLevels :
                    JavaFormat(o, config, level) = JavaFormat(o.field, config, level)

\* an Optional whose field holds a Type its value does not hold, and whose
\* field has another name and another text than its value
C11_Witness ==
    /\ JavaWritten
    /\ Len(tokens) = 1
    /\ tokens[1].kind = "Optional"
    /\ tokens[1].value.kind = "Type"
    /\ tokens[1].field.kind = "Type"
    /\ JavaName(tokens[1].field) # JavaName(tokens[1].value)
    /\ ~(JavaReachableKeys(tokens[1].field) \subseteq JavaCollected)
    /\ JavaCollected # {}
    /\ file.body[1] # JavaFormat(tokens[1].value, config, 0)

(***************************************************************************)
(* C12  Rendering does not mutate resolver state: in write_file the import *)
(* table is changed by the import pass (Java::imports) only; formatting an *)
(* item of any kind, at any level and with any generic arguments, leaves   *)
(* config.imported and config.package as they were.                        *)
(***************************************************************************)
RECURSIVE JavaItemsOf(_)
\* every item format is called on when an item is formatted or inspected:
\* the item, its generic arguments at any depth, the value and the field of
\* an Optional
JavaItemsOf(item) ==
    CASE item.kind = "Type" ->
            {item} \cup UNION {JavaItemsOf(a) : a \in Range(item.arguments)}
      [] item.kind = "Optional" ->
            {item} \cup JavaItemsOf(item.value) \cup JavaItemsOf(item.field)
      [] OTHER -> {item}

\* the values of Config.package
JavaFilePackages == {None} \cup {Some(package) : package \in JavaPackages}

\* C12: the Config write_file leaves is the Config of the import pass, and
\* format leaves every Config of that import table as it received it
C12_FormatKeepsConfig ==
    [][(pc = "quoting" /\ pc' = "written") =>
          /\ config'.package = config.package
          /\ config'.imported = JavaImports(tokens, config).imported
          /\ \A item \in UNION {JavaItemsOf(t) : t \in Range(tokens)} :
                \A level \in JavaLevels, package \in JavaFilePackages :
                   LET c == [package |-> package, imported |-> config'.imported]
                   IN  JavaFormatConfig(item, c, level) = c]_vars

\* a file whose import pass registered a name, whose item is a generic Type
\* with an Optional among its arguments
C12_Witness ==
    /\ JavaWritten
    /\ DOMAIN config.imported # {}
    /\ \E i \in 1..Len(tokens) :
          /\ tokens[i].kind = "Type"
          /\ \E a \in Range(tokens[i].arguments) :
                a.kind = "Optional" /\ a.field.kind = "Type"
          /\ file.body[i] = JavaFormat(tokens[i], config, 0)

(***************************************************************************)
(* C13  Import completeness over repeated renders: in every file written   *)
(* with a Config shared by a sequence of write_file calls, a Type that is  *)
(* rendered without its package and whose package is neither java.lang nor *)
(* the file's package has an import line for its (package, name) in the    *)
(* header of that file.                                                    *)
(***************************************************************************)
C13_ImportComplete ==
    JavaWritten =>
        \A t \in JavaStreamTypes :
            (JavaUnqualified(t) /\ ~JavaSuppressed(t.package)) =>
                JavaImportCount(t.package, t.name) >= 1

(***************************************************************************)
(* C14  Unambiguous use sites: in one write_file call with a fresh Config, *)
(* two Types of the stream with the same simple name and nested path and   *)
(* different packages are never both rendered without their package.       *)
(***************************************************************************)
C14_UnambiguousUseSites ==
    JavaWritten =>
        \A t1, t2 \in JavaStreamTypes :
            (t1.name = t2.name /\ t1.path = t2.path /\ t1.package # t2.package) =>
                ~(JavaUnqualified(t1) /\ JavaUnqualified(t2))

====
